---------------------------- MODULE Spec2Model ----------------------------
(***************************************************************************)
(* State-machine model of panel/param.py: ParamPanel (widget factory,      *)
(* change relay, panel assembler) and JSONInit (JSON bulk initializer).    *)
(*                                                                         *)
(* Python values are modelled as records [t, a, l]: an atom (a string      *)
(* token), None, a list of atoms, or a dict.  An optional value (Python    *)
(* None or a value) that is compared numerically is a sequence of length   *)
(* 0 or 1.                                                                 *)
(***************************************************************************)
EXTENDS Integers, Sequences, FiniteSets, TLC

VARIABLES
    globals,            \* names bound in the module namespace of param.py
    params,             \* self.object.params(): attribute name -> Parameter
    order,              \* enumeration order of self.object.params().items()
    values,             \* attribute values of the target object
    display_threshold,  \* ParamPanel.display_threshold
    default_precedence, \* ParamPanel.default_precedence
    label_formatter,    \* ParamPanel.label_formatter ("None" or a formatter)
    _widget_options,     \* self._widget_options: attribute name -> opt_lookup
    controls,           \* live controls with a registered watcher, by attribute
    environ,            \* os.environ.get(self.varname, None): <<>> or <<text>>
    files,              \* the file system: path -> text of the file
    init,               \* the JSONInit instance: its target and json_file
    is_class,           \* the parameterized given to JSONInit is a class
    warnings,           \* the warnings emitted so far, with their channel
    calls,              \* number of JSONInit calls made
    ret                 \* outcome of the last operation

panelVars == <<params, order, values, display_threshold, default_precedence,
               label_formatter, _widget_options, controls, ret>>

jsonVars == <<environ, files, init, is_class, warnings, calls>>

vars == <<globals, panelVars, jsonVars>>

-----------------------------------------------------------------------------
(* Bounds of the model *)

\* declared precedences, display_threshold and default_precedence range over
\* -1 .. MaxPrec
MaxPrec == 1

Precedences == (0 - 1) .. MaxPrec

\* JSONInit is called at most MaxCalls times
MaxCalls == 2

-----------------------------------------------------------------------------
(* Python values *)

None == [t |-> "none", a |-> "", l |-> <<>>]

Atom(x) == [t |-> "atom", a |-> x, l |-> <<>>]

List(s) == [t |-> "list", a |-> "", l |-> s]

Dict == [t |-> "dict", a |-> "", l |-> <<>>]

\* the names the file binds at module level: its imports and its two classes
ModuleGlobals ==
    {"itertools", "partial", "param", "Div", "Panel", "WidgetBox",
     "default_label_formatter", "LiteralInput", "Select", "Checkbox",
     "FloatSlider", "IntSlider", "RangeSlider", "MultiSelect", "DatePicker",
     "ParamPanel", "JSONInit"}

-----------------------------------------------------------------------------
(* The attribute system, as the file consumes it *)

\* a dict's enumeration is a sequence of the names without repetition
Enumerations(S) ==
    {s \in [1 .. Cardinality(S) -> S] : \A i, j \in DOMAIN s : s[i] = s[j] => i = j}

\* Python's order on the attribute names of the model (str comparison)
NameRank == [n \in {"a", "name", "z"} |->
                 IF n = "a" THEN 1 ELSE IF n = "name" THEN 2 ELSE 3]

\* hasattr(p_obj, 'get_range'): the selector kinds of the attribute system
HasGetRange(p_obj) == p_obj.kind \in {"Selector", "ListSelector", "FileSelector"}

\* hasattr(p_obj, 'get_soft_bounds'): the numeric kinds
HasGetSoftBounds(p_obj) == p_obj.kind \in {"Number", "Integer", "Range", "Date"}

NumericAtoms == {"1", "2", "5"}

RangeValues(p_obj) == {p_obj.range[i][2] : i \in DOMAIN p_obj.range}

\* setattr(self.object, p_name, v) as the attribute system decides it:
\* "" when the value is accepted, else the exception the setter raises.
\* instance is FALSE when the attribute is set on the class.
Rejection(ps, instance, p_name, v) ==
    IF p_name \notin DOMAIN ps THEN "ValueError" ELSE
    LET p_obj == ps[p_name] IN
    IF p_obj.constant /\ instance THEN "TypeError"
    ELSE IF v.t = "none" THEN (IF p_obj.allow_None THEN "" ELSE "ValueError")
    ELSE IF p_obj.kind \in {"Number", "Integer"}
         THEN (IF v.t = "atom" /\ v.a \in NumericAtoms THEN "" ELSE "ValueError")
    ELSE IF p_obj.kind = "String"
         THEN (IF v.t = "atom" /\ v.a \notin NumericAtoms THEN "" ELSE "ValueError")
    ELSE IF p_obj.kind \in {"Selector", "FileSelector"}
         THEN (IF ~p_obj.check_on_set \/ v \in RangeValues(p_obj)
               THEN "" ELSE "ValueError")
    ELSE IF p_obj.kind = "ListSelector"
         THEN (IF v.t = "list"
                  /\ (~p_obj.check_on_set
                      \/ \A i \in DOMAIN v.l : Atom(v.l[i]) \in RangeValues(p_obj))
               THEN "" ELSE "ValueError")
    ELSE ""

-----------------------------------------------------------------------------
(* ParamPanel *)

\* _mapping: attribute kind -> widget kind; a kind outside its domain has no
\* entry (type(p_obj) is looked up exactly, without its base classes)
_mapping ==
    [k \in {"Parameter", "Dict", "Selector", "Boolean", "Number", "Integer",
            "Range", "ListSelector", "Date"} |->
        CASE k = "Parameter"    -> "LiteralInput"
          [] k = "Dict"         -> "LiteralInput"
          [] k = "Selector"     -> "Select"
          [] k = "Boolean"      -> "Checkbox"
          [] k = "Number"       -> "FloatSlider"
          [] k = "Integer"      -> "IntSlider"
          [] k = "Range"        -> "RangeSlider"
          [] k = "ListSelector" -> "MultiSelect"
          [] k = "Date"         -> "DatePicker"]

\* default_label_formatter on the attribute names of the model
default_label_formatter ==
    [n \in {"a", "name", "z"} |->
        IF n = "a" THEN "A" ELSE IF n = "name" THEN "Name" ELSE "Z"]

\* named_objs(p_obj.get_range().items()): the (label, value) pairs of the range
named_objs(items) == items

\* lookup = {v: k for k, v in options}: a later pair overwrites an earlier one
\* that carries the same value
lookup(options) ==
    [v \in {options[i][2] : i \in DOMAIN options} |->
        LET last == CHOOSE i \in DOMAIN options :
                        /\ options[i][2] = v
                        /\ \A j \in DOMAIN options : options[j][2] = v => j <= i
        IN  options[last][1]]

\* opt_lookup = {k: v for k, v in options}
opt_lookup(options) ==
    [k \in {options[i][1] : i \in DOMAIN options} |->
        LET last == CHOOSE i \in DOMAIN options :
                        /\ options[i][1] = k
                        /\ \A j \in DOMAIN options : options[j][1] = k => j <= i
        IN  options[last][2]]

Control(w, label, value, opts, bounds, p_name) ==
    [widget |-> w, name |-> label, value |-> value, options |-> opts,
     bounds |-> bounds, p_name |-> p_name]

NoControl == Control("", "", None, <<>>, <<>>, "")

Raised(exc, wo) == [raised |-> exc, control |-> NoControl, _widget_options |-> wo]

\* widget(p_name) on the target (ps, vs) with formatter fmt, namespace g and
\* cache wo: [raised, control, _widget_options]
widget(ps, vs, fmt, g, wo, p_name) ==
    LET p_obj == ps[p_name]
        value == vs[p_name]
        label == IF fmt # "None" THEN default_label_formatter[p_name] ELSE p_name
        ranged == HasGetRange(p_obj) /\ value.t # "dict"
        options == named_objs(p_obj.range)
        lk == lookup(options)
        bounds == IF HasGetSoftBounds(p_obj) THEN p_obj.soft_bounds ELSE <<>>
    IN
    IF p_obj.kind \notin DOMAIN _mapping THEN Raised("KeyError", wo)
    ELSE IF ~ranged
    THEN [raised |-> "", _widget_options |-> wo,
          control |-> Control(_mapping[p_obj.kind], label, value, <<>>, bounds, p_name)]
    ELSE IF "named_objs" \notin g THEN Raised("NameError", wo)
    ELSE IF value.t = "list" /\ \E i \in DOMAIN value.l : Atom(value.l[i]) \notin DOMAIN lk
    THEN Raised("KeyError", wo)
    ELSE IF value.t # "list" /\ ~(p_obj.kind = "FileSelector" /\ value.t = "none")
            /\ value \notin DOMAIN lk
    THEN Raised("KeyError", wo)
    ELSE
    LET shown == IF value.t = "list"
                 THEN List([i \in DOMAIN value.l |-> lk[Atom(value.l[i])]])
                 ELSE IF p_obj.kind = "FileSelector" /\ value.t = "none"
                 THEN Atom("")
                 ELSE Atom(lk[value])
        opts == [i \in DOMAIN options |-> <<options[i][1], options[i][1]>>]
    IN  [raised |-> "",
         _widget_options |-> (p_name :> opt_lookup(options)) @@ wo,
         control |-> Control(_mapping[p_obj.kind], label, shown, opts, bounds, p_name)]

\* _apply_change(p_name, change): setattr(self.object, p_name, change.new)
_apply_change(ps, vs, p_name, new) ==
    LET exc == Rejection(ps, TRUE, p_name, new) IN
    [raised |-> exc,
     values |-> IF exc = "" THEN [vs EXCEPT ![p_name] = new] ELSE vs]


\* key_fn: the declared precedence, or default_precedence when none is declared
key_fn(ps, dp, x) ==
    IF ps[x].precedence # <<>> THEN ps[x].precedence[1] ELSE dp

\* sorted(params, key=key_fn): a stable sort, equal keys keep the order of items
sorted_precedence(ps, dp, items) ==
    LET n == Len(items)
        pos(i) == 1 + Cardinality({j \in 1 .. n :
                        \/ key_fn(ps, dp, items[j]) < key_fn(ps, dp, items[i])
                        \/ /\ key_fn(ps, dp, items[j]) = key_fn(ps, dp, items[i])
                           /\ j < i})
    IN  [q \in 1 .. n |-> items[CHOOSE i \in 1 .. n : pos(i) = q]]

\* filtered with the comparison strict: an attribute at the threshold is dropped
filtered_strict(ps, thr, sp) ==
    SelectSeq(sp, LAMBDA k : ps[k].precedence = <<>> \/ ps[k].precedence[1] > thr)

\* the attributes with no declared precedence, or one at or above the threshold
filtered(ps, thr, sp) ==
    SelectSeq(sp, LAMBDA k : ps[k].precedence = <<>> \/ ps[k].precedence[1] >= thr)

\* sorted_groups with the groups left unsorted
sorted_groups_unsorted(ps, dp, f) == f

\* itertools.groupby(filtered, key=key_fn), each group sorted (by name, the
\* first component of the pairs), the groups then flattened: ordered_params
\* before the removal of 'name'
sorted_groups(ps, dp, f) ==
    LET n == Len(f)
        same(i, j) == \A m \in i .. j : key_fn(ps, dp, f[m]) = key_fn(ps, dp, f[i])
        first(i) == CHOOSE j \in 1 .. i : same(j, i) /\ \A m \in 1 .. i : same(m, i) => j <= m
        last(i) == CHOOSE j \in i .. n : same(i, j) /\ \A m \in i .. n : same(i, m) => m <= j
        pos(i) == first(i) + Cardinality({j \in first(i) .. last(i) :
                                             NameRank[f[j]] < NameRank[f[i]]})
    IN  [q \in 1 .. n |-> f[CHOOSE i \in 1 .. n : pos(i) = q]]

\* s without its element at index i
Pop(s, i) == [q \in 1 .. Len(s) - 1 |-> IF q < i THEN s[q] ELSE s[q + 1]]

\* [self.widget(pname) for pname in ordered_params], left to right; the first
\* exception ends the comprehension, the cache keeps what the calls before it wrote
RECURSIVE widgets_of(_, _, _, _, _, _, _)
widgets_of(ps, vs, fmt, g, wo, names, acc) ==
    IF names = <<>> THEN [raised |-> "", out |-> acc, _widget_options |-> wo]
    ELSE LET w == widget(ps, vs, fmt, g, wo, Head(names)) IN
         IF w.raised # ""
         THEN [raised |-> w.raised, out |-> <<>>, _widget_options |-> w._widget_options]
         ELSE widgets_of(ps, vs, fmt, g, w._widget_options, Tail(names),
                         Append(acc, w.control))

\* the heading: Div(text='<b>{0}</b>'.format(self.object.name))
Heading(vs) == Control("Div", "", vs["name"], <<>>, <<>>, "")

\* _get_widgets(): [raised, out, _widget_options]
_get_widgets(ps, items, vs, thr, dp, fmt, g, wo) ==
    LET sp == sorted_precedence(ps, dp, items)
        f == filtered(ps, thr, sp)
        op == sorted_groups(ps, dp, f)
    IN
    IF \A i \in DOMAIN op : op[i] # "name"
    THEN [raised |-> "ValueError", out |-> <<>>, _widget_options |-> wo]
    ELSE LET idx == CHOOSE i \in DOMAIN op :
                        op[i] = "name" /\ \A j \in DOMAIN op : op[j] = "name" => i <= j
         IN  widgets_of(ps, vs, fmt, g, wo, Pop(op, idx), <<Heading(vs)>>)


-----------------------------------------------------------------------------
(* Target objects of the model *)

Parameter(kind, precedence, range, check_on_set, soft_bounds, constant, allow_None) ==
    [kind |-> kind, precedence |-> precedence, range |-> range,
     check_on_set |-> check_on_set, soft_bounds |-> soft_bounds,
     constant |-> constant, allow_None |-> allow_None]

\* a declared precedence, or none
OptPrecedences == {<<>>} \cup {<<n>> : n \in Precedences}

\* the 'name' attribute every target object has: a constant string
NameParam(prec) == Parameter("String", prec, <<>>, FALSE, <<>>, TRUE, TRUE)

\* the enumerated ranges of the model, as (label, value) pairs in range order
Ranges ==
    { <<>>,
      << <<"Low", Atom("1")>>, <<"High", Atom("2")>> >>,
      << <<"x", Atom("x")>>, <<"y", Atom("y")>> >>,
      << <<"A", Atom("1")>>, <<"B", Atom("1")>> >> }

\* the values an attribute of the given kind is given in the model
ValuesOf(kind) ==
    {None} \cup
    CASE kind \in {"Number", "Integer"} -> {Atom("1"), Atom("2"), Atom("5")}
      [] kind \in {"Selector", "FileSelector"}
             -> {Atom("1"), Atom("2"), Atom("5"), Atom("x"), Dict}
      [] kind \in {"ListSelector"}
             -> {List(<<>>), List(<<"1">>), List(<<"2", "1">>), List(<<"5">>),
                 List(<<"y">>)}
      [] kind = "Range"   -> {List(<<"1", "2">>)}
      [] kind = "Dict"    -> {Dict}
      [] kind = "Boolean" -> {Atom("True")}
      [] OTHER            -> {Atom("x"), Dict}

NoRet == [op |-> "none", raised |-> "", out |-> <<>>, p_name |-> "", new |-> None]

Ret(op, raised, out, p_name, new) ==
    [op |-> op, raised |-> raised, out |-> out, p_name |-> p_name, new |-> new]

\* no JSONInit is configured: the environment variable is unset, there is no file
NoJSONInit ==
    /\ environ = <<>>
    /\ files = <<>>
    /\ init = [target |-> <<>>, json_file |-> <<>>]
    /\ is_class = FALSE
    /\ warnings = <<>>
    /\ calls = 0

-----------------------------------------------------------------------------
(* The panel assembler on a target with the attributes name, a and z *)

InitAssembler ==
    /\ \E pn, pa, pz \in OptPrecedences :
       \E ka \in {"Parameter", "Selector", "String"} :
          params = [n \in {"name", "a", "z"} |->
                      IF n = "name" THEN NameParam(pn)
                      ELSE IF n = "a"
                      THEN Parameter(ka, pa,
                               IF ka = "Selector"
                               THEN << <<"Low", Atom("1")>>, <<"High", Atom("2")>> >>
                               ELSE <<>>,
                               ka = "Selector", <<>>, FALSE, FALSE)
                      ELSE Parameter("Number", pz, <<>>, FALSE, <<0, 10>>, FALSE, FALSE)]
    /\ values = [n \in {"name", "a", "z"} |->
                    IF n = "name" THEN Atom("obj")
                    ELSE IF n = "a" /\ params[n].kind # "Selector" THEN Atom("x")
                    ELSE Atom("2")]
    /\ order \in Enumerations({"name", "a", "z"})
    /\ display_threshold \in Precedences
    /\ default_precedence \in Precedences
    /\ label_formatter = "default_label_formatter"
    /\ _widget_options = <<>>
    /\ controls = <<>>
    /\ ret = NoRet
    /\ NoJSONInit

\* panel._get_widgets()
GetWidgets ==
    LET r == _get_widgets(params, order, values, display_threshold,
                         default_precedence, label_formatter, globals,
                         _widget_options)
    IN  /\ ret' = Ret("_get_widgets", r.raised, r.out, "", None)
        /\ _widget_options' = r._widget_options
        /\ controls' = IF r.raised # "" THEN controls
                       ELSE [n \in {r.out[i].p_name : i \in 2 .. Len(r.out)} |->
                               r.out[CHOOSE i \in 2 .. Len(r.out) : r.out[i].p_name = n]]
        /\ UNCHANGED <<globals, params, order, values, display_threshold,
                       default_precedence, label_formatter, jsonVars>>

Init == globals = ModuleGlobals /\ InitAssembler

Next == GetWidgets

Spec == Init /\ [][Next]_vars


-----------------------------------------------------------------------------
(* Claims about the panel assembler *)

\* the attribute a control of the output stands for: the heading stands for
\* 'name', a per-attribute control for the attribute its watcher is bound to
AttrOf(out, i) == IF i = 1 THEN "name" ELSE out[i].p_name

Returned == ret.op = "_get_widgets" /\ ret.raised = ""

Hidden(n) ==
    params[n].precedence # <<>> /\ params[n].precedence[1] < display_threshold

\* C5: in the output of _get_widgets, an attribute with a declared precedence
\* below display_threshold has no control, an attribute with a declared
\* precedence at or above display_threshold has exactly one, and an attribute
\* with no declared precedence has exactly one whatever default_precedence is
\* ('name' is shown by the heading).
C5_VisibilityFilter ==
    Returned =>
        \A n \in DOMAIN params :
            Cardinality({i \in DOMAIN ret.out : AttrOf(ret.out, i) = n})
                = IF Hidden(n) THEN 0 ELSE 1

C5_Witness ==
    /\ Returned
    /\ default_precedence < display_threshold
    /\ params["a"].precedence = <<>>
    /\ \E i \in DOMAIN ret.out : i > 1 /\ ret.out[i].p_name = "a"
    /\ Hidden("z")
    /\ params["name"].precedence = <<display_threshold>>

\* C6: for every target that has the 'name' attribute, whatever the precedence
\* metadata and display_threshold, _get_widgets succeeds and returns the heading
\* carrying the target's name followed by per-attribute controls, none of them
\* for 'name'.  Stated for the targets whose other attributes are of kinds that
\* have a table entry and no range, so that no widget construction can fail.
C6_NameHeading ==
    (/\ ret.op = "_get_widgets"
     /\ \A n \in DOMAIN params \ {"name"} : params[n].kind \in {"Parameter", "Number"})
    => /\ ret.raised = ""
       /\ Len(ret.out) >= 1
       /\ ret.out[1] = Heading(values)
       /\ \A i \in 2 .. Len(ret.out) :
              ret.out[i].p_name # "name" /\ ret.out[i].widget # "Div"

\* C7: the per-attribute controls of the output are in strictly ascending order
\* of (precedence key, attribute name), the key being the declared precedence
\* or default_precedence; a strict total order leaves one possible output for a
\* set of (name, precedence) pairs, whatever the enumeration order.
C7_Ordering ==
    Returned =>
        \A i, j \in 2 .. Len(ret.out) :
            i < j =>
                LET x == ret.out[i].p_name
                    y == ret.out[j].p_name
                    kx == key_fn(params, default_precedence, x)
                    ky == key_fn(params, default_precedence, y)
                IN  kx < ky \/ (kx = ky /\ NameRank[x] < NameRank[y])

C7_Witness ==
    /\ Returned
    /\ Len(ret.out) = 3
    /\ ret.out[2].p_name = "a" /\ ret.out[3].p_name = "z"
    /\ params["a"].precedence = <<>> /\ params["z"].precedence = <<default_precedence>>
    /\ order = <<"z", "name", "a">>


-----------------------------------------------------------------------------
(* The widget factory and the change relay on a target with the attributes
   name and a, a declared in every way the model knows *)

Kinds == DOMAIN _mapping \cup {"String", "FileSelector"}

\* the names the file uses without binding them
FreeNames == {"os", "json", "named_objs"}

InitWidget ==
    /\ \E kind \in Kinds, range \in Ranges, check_on_set, allow_None \in BOOLEAN :
          /\ range # <<>> => kind \in {"Selector", "ListSelector", "FileSelector"}
          /\ check_on_set => range # <<>>
          /\ params = [n \in {"name", "a"} |->
                         IF n = "name" THEN NameParam(<<>>)
                         ELSE Parameter(kind, <<>>, range, check_on_set,
                                        IF kind \in {"Number", "Integer"}
                                        THEN <<0, 10>> ELSE <<>>,
                                        FALSE, allow_None)]
    /\ \E v \in ValuesOf(params["a"].kind) :
          /\ Rejection(params, TRUE, "a", v) = ""
          /\ values = [n \in {"name", "a"} |-> IF n = "name" THEN Atom("obj") ELSE v]
    /\ order = <<"name", "a">>
    /\ display_threshold = 0
    /\ default_precedence = 0
    /\ label_formatter \in {"None", "default_label_formatter"}
    /\ _widget_options = <<>>
    /\ controls = <<>>
    /\ ret = NoRet
    /\ NoJSONInit

\* panel.widget(p_name)
Widget(p_name) ==
    LET r == widget(params, values, label_formatter, globals, _widget_options, p_name)
    IN  /\ ret' = Ret("widget", r.raised,
                      IF r.raised = "" THEN <<r.control>> ELSE <<>>, p_name, None)
        /\ _widget_options' = r._widget_options
        /\ controls' = IF r.raised = "" THEN (p_name :> r.control) @@ controls
                       ELSE controls
        /\ UNCHANGED <<globals, params, order, values, display_threshold,
                       default_precedence, label_formatter, jsonVars>>

\* the values a user can give a control: one of its options for a Select, a
\* list of its options for a MultiSelect, a value of the attribute's kind else
EventValues(c, p_obj) ==
    IF c.widget = "Select"
    THEN {Atom(c.options[i][2]) : i \in DOMAIN c.options}
    ELSE IF c.widget = "MultiSelect"
    THEN {List(<<>>)}
         \cup {List(<<c.options[i][2]>>) : i \in DOMAIN c.options}
         \cup {List(<<c.options[i][2], c.options[j][2]>>) :
                  i, j \in DOMAIN c.options}
    ELSE ValuesOf(p_obj.kind)

\* a value-change event of the control of p_name: the watcher registered by
\* widget() calls _apply_change(p_name, change)
ApplyChange(p_name, new) ==
    /\ p_name \in DOMAIN controls
    /\ new \in EventValues(controls[p_name], params[p_name])
    /\ LET r == _apply_change(params, values, p_name, new)
       IN  /\ values' = r.values
           /\ ret' = Ret("_apply_change", r.raised, <<>>, p_name, new)
    /\ controls' = [controls EXCEPT ![p_name].value = new]
    /\ UNCHANGED <<globals, params, order, display_threshold, default_precedence,
                   label_formatter, _widget_options, jsonVars>>

AllValues == UNION {ValuesOf(k) : k \in Kinds}
                \cup {Atom("Low"), Atom("High"), Atom("A"), Atom("B"), Atom("y")}
                \cup {List(<<a>>) : a \in {"Low", "High", "A", "B", "x", "y"}}
                \cup {List(<<a, b>>) : a, b \in {"Low", "High", "A", "B", "x", "y"}}

NextWidget ==
    \/ \E p_name \in DOMAIN params : Widget(p_name)
    \/ \E p_name \in DOMAIN params, new \in AllValues : ApplyChange(p_name, new)

InitWidgetSource == globals = ModuleGlobals /\ InitWidget

SpecWidget == InitWidgetSource /\ [][NextWidget]_vars

\* the same with the free names bound, as they are once the missing imports
\* are added
InitWidgetBound == globals = ModuleGlobals \cup FreeNames /\ InitWidget

SpecWidgetBound == InitWidgetBound /\ [][NextWidget]_vars


-----------------------------------------------------------------------------
(* Claims about the widget factory and the change relay *)

\* the attribute widget() was last called on, and its control
Called == ret.op = "widget"

\* the label the range gives a value first
FirstLabel(range, v) ==
    range[CHOOSE i \in DOMAIN range :
              range[i][2] = v /\ \A j \in DOMAIN range : range[j][2] = v => i <= j][1]

\* the current value of the attribute is one the range can label
Labelled(p_obj, v) ==
    \/ v.t = "atom" /\ v \in RangeValues(p_obj)
    \/ v.t = "list" /\ \A i \in DOMAIN v.l : Atom(v.l[i]) \in RangeValues(p_obj)

\* C8: for an attribute with an enumerated range whose current value is not a
\* mapping (and is one the range labels), widget(name) returns a control whose
\* options are the (label, label) pairs of the range in range order and whose
\* value is the label of the current value (of each element for a list), a
\* value that several labels carry resolving to the first inserted label.
C8_RangeControl ==
    (/\ Called
     /\ params[ret.p_name].kind \in {"Selector", "ListSelector"}
     /\ Labelled(params[ret.p_name], values[ret.p_name]))
    => LET p_obj == params[ret.p_name]
           v == values[ret.p_name]
       IN  /\ ret.raised = ""
           /\ ret.out[1].options =
                  [i \in DOMAIN p_obj.range |-> <<p_obj.range[i][1], p_obj.range[i][1]>>]
           /\ ret.out[1].value =
                  IF v.t = "list"
                  THEN List([i \in DOMAIN v.l |-> FirstLabel(p_obj.range, Atom(v.l[i]))])
                  ELSE Atom(FirstLabel(p_obj.range, v))

\* C9: for every attribute whose kind has an entry in the mapping table and for
\* every current value it holds (None and a value outside the range included),
\* widget(name) succeeds and returns a control of the mapped kind; it fails
\* only for the kinds absent from the table.
C9_MappedKindSucceeds ==
    Called =>
        IF params[ret.p_name].kind \in DOMAIN _mapping
        THEN ret.raised = "" /\ ret.out[1].widget = _mapping[params[ret.p_name].kind]
        ELSE ret.raised = "KeyError"

-----------------------------------------------------------------------------
(* JSONInit *)

\* parsed JSON: an atom, a list, or a dict as its (key, value) pairs in
\* document order
JAtom(a) == [t |-> "atom", a |-> a, items |-> <<>>]

JList == [t |-> "list", a |-> "", items |-> <<>>]

JDict(items) == [t |-> "dict", a |-> "", items |-> items]

\* the texts of the model that are JSON documents, with what they parse to
Documents ==
    [text \in {"{\"p1\": 5}", "{\"MyClass\": {\"p1\": 5}}", "{\"Other\": {\"p1\": 5}}",
               "{\"MyClass\": {\"p1\": 5}, \"p2\": 2}", "{\"p1\": \"bad\", \"p2\": 2}",
               "{\"name\": \"n\", \"p2\": 2}", "{\"q\": 1, \"p2\": 2}",
               "{\"MyClass\": 5}", "{\"T\": {\"p2\": 2}, \"p1\": 5}", "[1]",
               "{\"p1\": \"bad\", \"name\": \"n\", \"p2\": 2}"} |->
        CASE text = "{\"p1\": 5}" -> JDict(<< <<"p1", JAtom("5")>> >>)
          [] text = "{\"MyClass\": {\"p1\": 5}}"
                -> JDict(<< <<"MyClass", JDict(<< <<"p1", JAtom("5")>> >>)>> >>)
          [] text = "{\"Other\": {\"p1\": 5}}"
                -> JDict(<< <<"Other", JDict(<< <<"p1", JAtom("5")>> >>)>> >>)
          [] text = "{\"MyClass\": {\"p1\": 5}, \"p2\": 2}"
                -> JDict(<< <<"MyClass", JDict(<< <<"p1", JAtom("5")>> >>)>>,
                            <<"p2", JAtom("2")>> >>)
          [] text = "{\"p1\": \"bad\", \"p2\": 2}"
                -> JDict(<< <<"p1", JAtom("bad")>>, <<"p2", JAtom("2")>> >>)
          [] text = "{\"name\": \"n\", \"p2\": 2}"
                -> JDict(<< <<"name", JAtom("n")>>, <<"p2", JAtom("2")>> >>)
          [] text = "{\"q\": 1, \"p2\": 2}"
                -> JDict(<< <<"q", JAtom("1")>>, <<"p2", JAtom("2")>> >>)
          [] text = "{\"MyClass\": 5}" -> JDict(<< <<"MyClass", JAtom("5")>> >>)
          [] text = "{\"T\": {\"p2\": 2}, \"p1\": 5}"
                -> JDict(<< <<"T", JDict(<< <<"p2", JAtom("2")>> >>)>>,
                            <<"p1", JAtom("5")>> >>)
          [] text = "{\"p1\": \"bad\", \"name\": \"n\", \"p2\": 2}"
                -> JDict(<< <<"p1", JAtom("bad")>>, <<"name", JAtom("n")>>,
                            <<"p2", JAtom("2")>> >>)
          [] text = "[1]" -> JList]

\* the texts of the model: the documents, a text that is no JSON, and paths
Texts == DOMAIN Documents \cup {"not json", "conf.json", "missing.json"}

\* env_var.endswith('.json')
endswith_json(text) == text \in {"conf.json", "missing.json"}

\* json.loads(text): [ok, spec]; a text that is no JSON raises ValueError
json_loads(text) ==
    IF text \in DOMAIN Documents THEN [ok |-> TRUE, spec |-> Documents[text]]
    ELSE [ok |-> FALSE, spec |-> JList]

\* json.load(open(os.path.abspath(fname), 'r')): a missing file and a text
\* that is no JSON both raise
json_load(fs, fname) ==
    IF fname \in DOMAIN fs THEN json_loads(fs[fname])
    ELSE [ok |-> FALSE, spec |-> JList]

\* `target in spec` and spec[target] for a dict
HasKey(d, k) == \E i \in DOMAIN d.items : d.items[i][1] = k

Item(d, k) == d.items[CHOOSE i \in DOMAIN d.items : d.items[i][1] = k][2]

\* the Python value a parsed JSON value is
ToValue(j) == IF j.t = "atom" THEN Atom(j.a) ELSE IF j.t = "dict" THEN Dict ELSE List(<<>>)

Warning(on, msg, about) == [on |-> on, msg |-> msg, about |-> about]

Outcome(raised, vs, ws) == [raised |-> raised, values |-> vs, warnings |-> ws]

\* the loop over params.items(): each pair is set on its own; a ValueError
\* becomes a warning, any other exception leaves the loop and the call
RECURSIVE set_params(_, _, _, _, _, _)
set_params(ps, instance, warnobj, vs, ws, items) ==
    IF items = <<>> THEN Outcome("", vs, ws)
    ELSE LET name == Head(items)[1]
             value == ToValue(Head(items)[2])
             exc == Rejection(ps, instance, name, value)
         IN  IF exc = ""
             THEN set_params(ps, instance, warnobj, [vs EXCEPT ![name] = value], ws,
                             Tail(items))
             ELSE IF exc = "ValueError"
             THEN set_params(ps, instance, warnobj, vs,
                             Append(ws, Warning(warnobj, "ValueError", name)),
                             Tail(items))
             ELSE Outcome(exc, vs, ws)

\* JSONInit.__call__(parameterized): [raised, values, warnings]
__call__(g, cfg, env_var, fs, ps, class, vs, ws) ==
    LET warnobj == IF class THEN "param.main" ELSE "parameterized"
        target == IF cfg.target # <<>> THEN cfg.target[1] ELSE "MyClass"
        json_file == cfg.json_file
        truthy == json_file # <<>> /\ json_file[1] # ""
        loaded == IF truthy \/ endswith_json(env_var[1])
                  THEN json_load(fs, IF truthy THEN json_file[1] ELSE env_var[1])
                  ELSE json_loads(env_var[1])
        spec == loaded.spec
        settings == IF HasKey(spec, target) THEN Item(spec, target) ELSE spec
    IN
    IF "os" \notin g THEN Outcome("NameError", vs, ws)
    ELSE IF env_var = <<>> /\ json_file = <<>> THEN Outcome("", vs, ws)
    ELSE IF ~truthy /\ env_var = <<>> THEN Outcome("AttributeError", vs, ws)
    ELSE IF truthy \/ endswith_json(env_var[1])
    THEN \* the bare except catches what the load raises (a NameError for json
         \* included); its handler formats `spec`, which the failed assignment
         \* left unbound
         IF "json" \notin g \/ ~loaded.ok THEN Outcome("UnboundLocalError", vs, ws)
         ELSE IF spec.t # "dict"
         THEN Outcome("", vs, Append(ws, Warning(warnobj, "must be a dictionary", "")))
         ELSE IF settings.t # "dict" THEN Outcome("AttributeError", vs, ws)
         ELSE set_params(ps, ~class, warnobj, vs, ws, settings.items)
    ELSE IF "json" \notin g THEN Outcome("NameError", vs, ws)
    ELSE IF ~loaded.ok THEN Outcome("ValueError", vs, ws)
    ELSE IF spec.t # "dict"
    THEN Outcome("", vs, Append(ws, Warning(warnobj, "must be a dictionary", "")))
    ELSE IF settings.t # "dict" THEN Outcome("AttributeError", vs, ws)
    ELSE set_params(ps, ~class, warnobj, vs, ws, settings.items)

-----------------------------------------------------------------------------
(* JSONInit on a target of class MyClass with the attributes name, p1, p2 *)

\* the attribute values of the target before any call
InitValues == [n \in {"name", "p1", "p2"} |-> IF n = "name" THEN Atom("obj") ELSE Atom("1")]

InitJSONInit ==
    /\ params = [n \in {"name", "p1", "p2"} |->
                    IF n = "name" THEN NameParam(<<>>)
                    ELSE Parameter("Integer", <<>>, <<>>, FALSE, <<>>, FALSE, FALSE)]
    /\ values = InitValues
    /\ order = <<"name", "p1", "p2">>
    /\ display_threshold = 0
    /\ default_precedence = 0
    /\ label_formatter = "default_label_formatter"
    /\ _widget_options = <<>>
    /\ controls = <<>>
    /\ ret = NoRet
    /\ environ \in {<<>>} \cup {<<text>> : text \in Texts}
    /\ files \in [{"conf.json"} -> DOMAIN Documents \cup {"not json"}]
    /\ init \in [target : {<<>>, <<"T">>},
                 json_file : {<<>>, <<"">>, <<"conf.json">>, <<"missing.json">>}]
    /\ is_class \in BOOLEAN
    /\ warnings = <<>>
    /\ calls = 0

\* json_init(parameterized)
Call ==
    /\ calls < MaxCalls
    /\ LET r == __call__(globals, init, environ, files, params, is_class,
                               values, warnings)
       IN  /\ values' = r.values
           /\ warnings' = r.warnings
           /\ ret' = Ret("__call__", r.raised, <<>>, "", None)
    /\ calls' = calls + 1
    /\ UNCHANGED <<globals, params, order, display_threshold, default_precedence,
                   label_formatter, _widget_options, controls, environ, files, init,
                   is_class>>

NextJSONInit == Call

InitJSONInitSource == globals = ModuleGlobals /\ InitJSONInit

SpecJSONInit == InitJSONInitSource /\ [][NextJSONInit]_vars

\* the same with the free names bound, as they are once the missing imports
\* are added
InitJSONInitBound == globals = ModuleGlobals \cup FreeNames /\ InitJSONInit

SpecJSONInitBound == InitJSONInitBound /\ [][NextJSONInit]_vars


-----------------------------------------------------------------------------
(* Claims about JSONInit *)

CallDone == ret.op = "__call__"

\* the source the configuration names: a file (the configured json_file, or
\* the environment value when it ends in .json), else the environment value
Configured == init.json_file # <<>> /\ init.json_file[1] # ""

FromFile == Configured \/ (environ # <<>> /\ endswith_json(environ[1]))

Path == IF Configured THEN init.json_file[1] ELSE environ[1]

\* the source holds a JSON document
Resolves ==
    IF FromFile THEN Path \in DOMAIN files /\ files[Path] \in DOMAIN Documents
    ELSE environ # <<>> /\ environ[1] \in DOMAIN Documents

Root == Documents[IF FromFile THEN files[Path] ELSE environ[1]]

TargetKey == IF init.target # <<>> THEN init.target[1] ELSE "MyClass"

\* the settings: the value under the target key, else the whole mapping
Settings == IF HasKey(Root, TargetKey) THEN Item(Root, TargetKey) ELSE Root

HasSettings == Resolves /\ Root.t = "dict" /\ Settings.t = "dict"

SetOutcome(pair) == Rejection(params, ~is_class, pair[1], ToValue(pair[2]))

\* vs updated with the pairs of items the set operation accepts
RECURSIVE ApplyAccepted(_, _)
ApplyAccepted(vs, items) ==
    IF items = <<>> THEN vs
    ELSE ApplyAccepted(IF SetOutcome(Head(items)) = ""
                       THEN [vs EXCEPT ![Head(items)[1]] = ToValue(Head(items)[2])]
                       ELSE vs,
                       Tail(items))

\* C1: JSONInit.__call__ never raises: whatever the json_file, the environment
\* value, the parsed root, the nested settings and the set outcomes, the call
\* returns normally.
C1_NeverRaises == CallDone => ret.raised = ""

\* C2: best effort over the settings mapping: every pair the set operation
\* rejects with a validation error has a warning, and the target ends as the
\* initial state updated with exactly the accepted pairs.
C2_BestEffort ==
    (CallDone /\ HasSettings) =>
        /\ values = ApplyAccepted(InitValues, Settings.items)
        /\ \A i \in DOMAIN Settings.items :
              SetOutcome(Settings.items[i]) = "ValueError" =>
                  \E w \in DOMAIN warnings :
                      warnings[w].msg = "ValueError"
                      /\ warnings[w].about = Settings.items[i][1]

\* C3: the settings are selected by the target key: the attributes that change
\* are attributes listed in the settings (under the target key when the root
\* has it, no other top-level key being applied; the whole root otherwise), and
\* when every pair of the settings is accepted or rejected by validation the
\* accepted ones are set.
C3_TargetKey ==
    (CallDone /\ Resolves /\ Root.t = "dict") =>
        /\ \A n \in DOMAIN values :
              values[n] # InitValues[n] =>
                  Settings.t = "dict" /\ HasKey(Settings, n)
        /\ (Settings.t = "dict"
            /\ \A i \in DOMAIN Settings.items :
                  SetOutcome(Settings.items[i]) \in {"", "ValueError"})
           => values = ApplyAccepted(InitValues, Settings.items)

\* C4: with the environment variable unset and no json_file configured, the
\* call is a no-op: it returns, no attribute changes, no warning is emitted.
C4_NoOp ==
    (CallDone /\ environ = <<>> /\ init.json_file = <<>>) =>
        ret.raised = "" /\ values = InitValues /\ warnings = <<>>

=============================================================================
